---- MODULE Spec2Model ----
(***************************************************************************)
(* iiq_patch: installing and uninstalling file-level patches of InsightIQ. *)
(*                                                                         *)
(* The state is the file system the tool works on: the application source  *)
(* tree, the patches root with one directory per installed patch, and the  *)
(* position and locals of the handler that is running.                     *)
(***************************************************************************)
EXTENDS Integers, Sequences, FiniteSets, TLC

(***************************************************************************)
(* Bounds of the model                                                     *)
(***************************************************************************)
\* events of one run of the model: every handler entered counts one, an I/O
\* failure in it one more, and so does every modification from outside
MaxEvents == 4
\* longest name given to convert_patch_name
MaxLen == 4
\* longest directory listing given to expected_backups
MaxFound == 2
\* members of a patch file
MaxMembers == 3
\* entries of a Parameters object
MaxParams == 3
\* backup files in the backups directory
MaxBackups == 4
\* calls each thread makes on the shared Parameters object
MaxCalls == 1

(***************************************************************************)
(* Files, contents, checksums                                              *)
(***************************************************************************)
\* content of a path at which no file exists (open() raises IOError)
NoFile == 0
\* the contents source files have before any patch, and the content patches bring
Pristine == 1
Patched == 2
Other == 3
Contents == {Pristine, Patched, Other}
\* the content of a file that open(location, 'w') emptied and whose write failed
Truncated == 4

\* hashlib.md5(data).hexdigest(): injective on the contents of the model
Md5(data) == 1000 + 7 * data

\* relative paths are strings, modelled as sequences of characters
Chars == {"a", "_", "/"}
\* c, a_/b and a/_b
FileC == <<"c">>
FileA_B == <<"a", "_", "/", "b">>
FileAB == <<"a", "/", "_", "b">>

(***************************************************************************)
(* convert_patch_name                                                      *)
(***************************************************************************)
RECURSIVE ReplaceSlash(_)
\* name.replace('/', '___')
ReplaceSlash(name) ==
    IF name = <<>> THEN <<>>
    ELSE IF Head(name) = "/"
         THEN <<"_", "_", "_">> \o ReplaceSlash(Tail(name))
         ELSE <<Head(name)>> \o ReplaceSlash(Tail(name))

RECURSIVE ReplaceEscape(_)
\* name.replace('___', '/'): leftmost, non-overlapping occurrences
ReplaceEscape(name) ==
    IF name = <<>> THEN <<>>
    ELSE IF Len(name) >= 3 /\ SubSeq(name, 1, 3) = <<"_", "_", "_">>
         THEN <<"/">> \o ReplaceEscape(SubSeq(name, 4, Len(name)))
         ELSE <<Head(name)>> \o ReplaceEscape(Tail(name))

\* convert_patch_name(name, to): "error" stands for the ValueError
convert_patch_name(name, to) ==
    IF to = "source" THEN ReplaceEscape(name)
    ELSE IF to = "backup" THEN ReplaceSlash(name)
    ELSE <<"ValueError">>

\* the files a patch may name, and the files of the tree the tool can reach
Paths == {FileC, FileA_B, FileAB}
BackupNames == {convert_patch_name(p, "backup") : p \in Paths}
\* source_path + 'c', location + 'c': where the compiled file of a source is
Pyc(location) == Append(location, "c")
\* cc, a file of the shipped tree that patches never declare
FileCc == Pyc(FileC)
\* the files of the source tree as InsightIQ ships it
Shipped == Paths \cup {FileCc}
TreePaths == Shipped \cup {convert_patch_name(b, "source") : b \in BackupNames}
\* location.endswith('.py')
EndsWithPy(location) ==
    /\ Len(location) >= 3
    /\ SubSeq(location, Len(location) - 2, Len(location)) = <<".", "p", "y">>
\* if os.path.isfile(pyc): os.remove(pyc)
RemovePyc(files, location) ==
    IF Pyc(location) \in DOMAIN files /\ files[Pyc(location)] # NoFile
    THEN [files EXCEPT ![Pyc(location)] = NoFile]
    ELSE files
\* the source tree as InsightIQ ships it
Original(p) == IF p = FileAB THEN Other ELSE Pristine

(***************************************************************************)
(* Version                                                                 *)
(***************************************************************************)
\* a component the version string does not have (None, below every number)
None == -1
\* the number of components Version keeps: len(_semver)
SemverLen == 4

\* version strings are sequences of components, a component a sequence of digits
Digits == {"0", "1"}
Tokens == {<<"0">>, <<"1">>, <<"0", "1">>}
DigitValue(c) == IF c = "0" THEN 0 ELSE 1

RECURSIVE IntOf(_)
\* int(version_breakdown[idx])
IntOf(token) ==
    IF token = <<>> THEN 0
    ELSE 10 * IntOf(SubSeq(token, 1, Len(token) - 1)) + DigitValue(token[Len(token)])

\* Version.__init__: major, minor, patch and build of the version string
VersionOf(version) ==
    [i \in 1..(IF Len(version) < SemverLen THEN Len(version) ELSE SemverLen) |-> IntOf(version[i])]

\* Version.__hash__: hash(self._version), the hash of the string as written
VersionHash(version) == version

\* a getattr that reads an absent component as zero
Component_zero(v, i) == IF i <= Len(v) THEN v[i] ELSE 0

\* getattr(version, semver) for semver = major, minor, patch, build
Component(v, i) == IF i <= Len(v) THEN v[i] ELSE None

\* Version.__eq__: every component equal
VersionEq(a, b) == \A i \in 1..SemverLen : ~(Component(a, i) # Component(b, i))

\* Version.__ne__: some component differs
VersionNe(a, b) == \E i \in 1..SemverLen : Component(a, i) # Component(b, i)

RECURSIVE LtFrom(_, _, _)
\* Version.__lt__: the loop over _semver from component i; after it False when
\* the lengths are equal and None, which is false too, when they are not
LtFrom(a, b, i) ==
    IF i > SemverLen THEN FALSE
    ELSE IF Component(a, i) > Component(b, i) THEN FALSE
    ELSE IF Component(a, i) < Component(b, i) THEN TRUE
    ELSE LtFrom(a, b, i + 1)

VersionLt(a, b) == LtFrom(a, b, 1)

RECURSIVE GtFrom(_, _, _)
\* Version.__gt__
GtFrom(a, b, i) ==
    IF i > SemverLen THEN FALSE
    ELSE IF Component(a, i) > Component(b, i) THEN TRUE
    ELSE IF Component(a, i) < Component(b, i) THEN FALSE
    ELSE GtFrom(a, b, i + 1)

VersionGt(a, b) == GtFrom(a, b, 1)

RECURSIVE GeFrom_strict(_, _, _)
\* a __ge__ that ends as __gt__ does
GeFrom_strict(a, b, i) ==
    IF i > SemverLen THEN FALSE
    ELSE IF Component(a, i) > Component(b, i) THEN TRUE
    ELSE IF Component(a, i) < Component(b, i) THEN FALSE
    ELSE GeFrom_strict(a, b, i + 1)

RECURSIVE GeFrom(_, _, _)
\* Version.__ge__: after the loop True when the lengths are equal, else None
GeFrom(a, b, i) ==
    IF i > SemverLen THEN Len(a) = Len(b)
    ELSE IF Component(a, i) > Component(b, i) THEN TRUE
    ELSE IF Component(a, i) < Component(b, i) THEN FALSE
    ELSE GeFrom(a, b, i + 1)

VersionGe(a, b) == GeFrom(a, b, 1)

RECURSIVE LeFrom_strict(_, _, _)
\* a __le__ that ends as __lt__ does
LeFrom_strict(a, b, i) ==
    IF i > 4 THEN FALSE
    ELSE IF Component(a, i) < Component(b, i) THEN TRUE
    ELSE IF Component(a, i) > Component(b, i) THEN FALSE
    ELSE LeFrom_strict(a, b, i + 1)

RECURSIVE LeFrom(_, _, _)
\* Version.__le__: the loop over _semver from component i, then the length test
LeFrom(a, b, i) ==
    IF i > 4 THEN Len(a) = Len(b)
    ELSE IF Component(a, i) < Component(b, i) THEN TRUE
    ELSE IF Component(a, i) > Component(b, i) THEN FALSE
    ELSE LeFrom(a, b, i + 1)

VersionLe(a, b) == LeFrom(a, b, 1)

\* versions.get_iiq_version(): the installed InsightIQ
IiqVersion == <<4, 1, 0, 3>>

\* a version_ok that tests the upper end of the range only
version_ok_maximum(version_info) == VersionLe(IiqVersion, version_info.maximum)

\* version_ok, given the installed version: min_version <= iiq_version <= max_version
version_in_range(min_version, iiq_version, max_version) ==
    VersionLe(min_version, iiq_version) /\ VersionLe(iiq_version, max_version)

\* version_ok(version_info, log)
version_ok(version_info) ==
    version_in_range(version_info.minimum, IiqVersion, version_info.maximum)

(***************************************************************************)
(* Patch files                                                             *)
(***************************************************************************)
\* the parsed meta.ini: ConfigObj(StringIO(contents.meta_ini))
Manifest(n, sums, lo, hi, secs) ==
    [sections |-> secs, scalars |-> {}, info |-> {"name", "bug"},
     version |-> {"minimum", "maximum"},
     name |-> n, minimum |-> lo, maximum |-> hi, files |-> sums]

\* an archive without meta.ini, or with an empty one
NoMeta ==
    [sections |-> {}, scalars |-> {}, info |-> {}, version |-> {}, name |-> "",
     minimum |-> <<>>, maximum |-> <<>>, files |-> [p \in {} |-> NoFile]]

\* PatchContents(readme, meta_ini, patched_files)
PatchContents(readme, meta_ini, patched_files) ==
    [readme |-> readme, meta_ini |-> meta_ini, patched_files |-> patched_files]

Names == {"pA", "pB"}
Sections == {"info", "version", "files"}
\* the sets of files the patches of the model are for
FileSets == {{FileC}, {FileA_B}, {FileC, FileA_B}, {FileA_B, FileAB}}
\* the checksums a manifest records for the files F: of the files as shipped,
\* or of files another patch has changed
Sums(F, shipped) == [p \in F |-> Md5(IF shipped THEN Original(p) ELSE Patched)]

\* patch files whose archive carries new content for exactly the declared files
ConsistentPatches ==
    {PatchContents(1, Manifest(n, Sums(F, shipped), <<4, 0>>, <<4, 1, 1>>, Sections),
                   [p \in F |-> Patched]) :
        n \in Names, F \in FileSets, shipped \in BOOLEAN}

\* a meta.ini in which the keys scal are not sections but values at the top:
\* "files = x" instead of "[files]"
ScalarManifest(n, sums, lo, hi, scal) ==
    [Manifest(n, sums, lo, hi, Sections \ scal) EXCEPT !.scalars = scal]

\* patch files without README.txt, for another version, with an extra section,
\* with a value where the files section should be
BrokenPatches ==
    {PatchContents(0, Manifest(n, Sums({FileC}, TRUE), <<4, 0>>, <<4, 1, 1>>, Sections),
                   [p \in {FileC} |-> Patched]) : n \in {"pA"}}
    \cup
    {PatchContents(1, Manifest(n, Sums({FileC}, TRUE), <<4, 1, 1>>, <<4, 2>>, Sections),
                   [p \in {FileC} |-> Patched]) : n \in {"pA"}}
    \cup
    {PatchContents(1, Manifest(n, Sums({FileC}, TRUE), <<4, 0>>, <<4, 1, 1>>, Sections \cup {"extra"}),
                   [p \in {FileC} |-> Patched]) : n \in {"pA"}}
    \cup
    {PatchContents(1, ScalarManifest(n, Sums({FileC}, TRUE), <<4, 0>>, <<4, 1, 1>>, {"files"}),
                   [p \in {FileC} |-> Patched]) : n \in {"pA"}}

\* patch files whose archive members are not the files meta.ini declares
MismatchedPatches ==
    {PatchContents(1, Manifest(n, Sums(FG[1], TRUE), <<4, 0>>, <<4, 1, 1>>, Sections),
                   [p \in FG[2] |-> Patched]) :
        n \in {"pB"},
        FG \in {<<{FileC}, {FileA_B}>>, <<{FileC}, {FileC, FileA_B}>>, <<{FileC, FileA_B}, {FileC}>>}}

\* what extract_patch_contents can return for the patch files given to --install
PatchFiles == ConsistentPatches \cup BrokenPatches \cup MismatchedPatches

(***************************************************************************)
(* Validators                                                              *)
(***************************************************************************)
\* config[key].keys(): a section has keys, a value (a str) has none
HasKeys(config, key) == key \in config.sections

\* patch_is_valid(contents, log): how the call ends, the value returned or the
\* exception raised
patch_is_valid_ends(contents) ==
    IF ~(contents.readme # 0 /\ contents.meta_ini # NoMeta /\ DOMAIN contents.patched_files # {})
    THEN "False"
    ELSE LET config == contents.meta_ini IN
         IF ~(config.sections \cup config.scalars = {"info", "version", "files"}) THEN "False"
         ELSE IF ~HasKeys(config, "info") THEN "AttributeError"
         ELSE IF ~(config.info = {"name", "bug"}) THEN "False"
         ELSE IF ~HasKeys(config, "version") THEN "AttributeError"
         ELSE IF ~(config.version = {"minimum", "maximum"}) THEN "False"
         ELSE IF ~HasKeys(config, "files") THEN "AttributeError"
         ELSE IF ~(Cardinality(DOMAIN config.files) >= 1) THEN "False"
         ELSE IF \A file_path \in DOMAIN config.files : Head(file_path) # "/"
         THEN "True" ELSE "False"

\* patch_is_valid(contents, log) returned True
patch_is_valid(contents) == patch_is_valid_ends(contents) = "True"

\* an md5_matches that accepts every file it can read
md5_matches_any(data, md5_hash) == TRUE

\* md5_matches(file_location, md5_hash, log), given the data read from the file
md5_matches(data, md5_hash) == md5_hash = Md5(data)

\* a source_is_patchable that only tests that the files can be read
source_is_readable(files_to_patch, src, readable) ==
    \A the_file \in DOMAIN files_to_patch : readable /\ src[the_file] # NoFile

\* source_is_patchable(files_to_patch, iiq_dir, log); readable is FALSE when
\* reading a source file raises IOError/OSError
source_is_patchable(files_to_patch, src, readable) ==
    \A the_file \in DOMAIN files_to_patch :
        /\ readable
        /\ src[the_file] # NoFile
        /\ md5_matches(src[the_file], files_to_patch[the_file])

Range(s) == {s[i] : i \in DOMAIN s}

\* an expected_backups without the test for duplicates
expected_backups_names(found_backups, expected_list) ==
    Range(found_backups) = {convert_patch_name(x, "backup") : x \in Range(expected_list)}

\* expected_backups(found_backups, expected_backups, log), both lists
expected_backups(found_backups, expected_list) ==
    LET backup_files == Range(found_backups)
        expected == {convert_patch_name(x, "backup") : x \in Range(expected_list)}
    IN  IF expected \subseteq backup_files /\ backup_files # expected THEN FALSE
        ELSE IF backup_files \subseteq expected /\ backup_files # expected THEN FALSE
        ELSE IF backup_files # expected THEN FALSE
        ELSE IF Cardinality(backup_files) # Len(found_backups) THEN FALSE
        ELSE TRUE

RECURSIVE ListOf(_)
\* a list of the members of S, each once: os.listdir(), dict.keys()
ListOf(S) ==
    IF S = {} THEN <<>>
    ELSE LET x == CHOOSE x \in S : TRUE IN <<x>> \o ListOf(S \ {x})

(***************************************************************************)
(* State                                                                   *)
(***************************************************************************)
VARIABLES
    iiq_dir,      \* TRUE when get_patch_info finds the InsightIQ source directory
    tree,         \* the application tree: content of every path under iiq_dir
    patches_dir,  \* TRUE when the patches root exists
    pdirs,        \* the directory of every patch name under the patches root
    pc,           \* the statement the running handler is at, "idle" between handlers
    cur,          \* the locals of the handler that runs or ran last
    start,        \* the file system when that handler was entered
    prev,         \* the patch the handler before installed, and the tree it found
    events,       \* handlers entered, handlers an I/O operation failed in, modifications
    codec,        \* a call of convert_patch_name: the name given and what came back
    listing,      \* a call of expected_backups: the lists given and what came back
    compare,      \* two Versions and what their comparisons and hashes came to
    ranged,       \* a call of version_ok: the range, the installed version, the answer
    valid,        \* a call of patch_is_valid: the contents given and how it ended
    cli,          \* a run of main: the arguments, the handler's exit code, how it ended
    tar,          \* a call of extract_patch_contents: the archive and how the call ended
    params,       \* a call of Parameters.__setitem__: the entries before and after
    cleanup,      \* a call of _cleanup_backups: the directory listing and what was deleted
    par,          \* one Parameters object, its lock and the threads calling its methods
    race          \* two handle_install processes of one patch on one file system

vars == <<iiq_dir, tree, patches_dir, pdirs, pc, cur, start, prev, events,
          codec, listing, compare, ranged, valid, cli, tar, params, cleanup,
          par, race>>
fs == <<tree, patches_dir, pdirs>>
pure == <<codec, listing, compare, ranged, valid, cli, tar, params, cleanup,
          par, race>>
handlers == <<iiq_dir, tree, patches_dir, pdirs, pc, cur, start, prev, events>>

\* <patches_dir>/<name> does not exist
NoDir ==
    [exists |-> FALSE, originals |-> FALSE, backups |-> [b \in BackupNames |-> NoFile],
     readme |-> 0, has_meta |-> FALSE, meta |-> NoMeta]
\* <patches_dir>/<name> right after os.mkdir
EmptyDir == [NoDir EXCEPT !.exists = TRUE]

NoPatch == PatchContents(0, NoMeta, [p \in {} |-> NoFile])
NoCall ==
    [op |-> "none", patch |-> NoPatch, name |-> "", all_patches |-> {}, todo |-> {},
     written |-> {}, result |-> 0, meta_config |-> NoMeta, fault |-> FALSE,
     raised |-> FALSE, removed |-> FALSE]
NoPrev == [name |-> "", tree |-> [p \in TreePaths |-> NoFile]]
NoCodec == [name |-> <<>>, backup |-> <<>>, source |-> <<>>, step |-> "none"]
NoListing == [found |-> <<>>, expected |-> <<>>, verdict |-> "none"]
NoCompare ==
    [a |-> <<>>, b |-> <<>>, lt |-> FALSE, gt |-> FALSE, le |-> FALSE, ge |-> FALSE,
     eq |-> FALSE, ne |-> FALSE, hash_a |-> <<>>, hash_b |-> <<>>, step |-> "none"]
NoRanged == [minimum |-> <<>>, iiq_version |-> <<>>, maximum |-> <<>>, ok |-> FALSE, step |-> "none"]
NoValid == [contents |-> NoPatch, outcome |-> "none"]
NoCli ==
    [command |-> "none", exit_code |-> 0, root |-> FALSE, restart |-> 0,
     outcome |-> "none", returned |-> 0]

NoTar ==
    [members |-> <<>>, unreadable |-> 0, closed |-> FALSE, readme |-> 0, meta_ini |-> 0,
     patched_files |-> {}, outcome |-> "none"]

NoParams == [data |-> <<>>, key |-> "", value |-> 0, after |-> <<>>, step |-> "none"]

NoCleanup ==
    [found |-> <<>>, max_backups |-> 0, to_delete |-> <<>>, outcome |-> "none"]

\* the threads that share one Parameters object
Threads == {1, 2}
\* a thread that is in no method of Parameters
NoThread ==
    [op |-> "none", name |-> "", occurrence |-> 0, value |-> 0, pc |-> "idle",
     i |-> 0, count |-> 0, index |-> 0, hit |-> "", outcome |-> "none", calls |-> 0]
NoPar == [data |-> <<>>, lock |-> 0, th |-> [t \in Threads |-> NoThread]]

\* the processes that run handle_install at the same time
Processes == {1, 2}
\* a process that has not called handle_install
NoProcess == [pc |-> "start", is_listed |-> FALSE, todo |-> {}, result |-> 0]
NoRace ==
    [patch |-> NoPatch, tree |-> [p \in TreePaths |-> NoFile], dir |-> NoDir,
     proc |-> [p \in Processes |-> NoProcess]]

\* the exit code of a handler that ends in an exception nothing catches
Uncaught == -1

Init ==
    /\ iiq_dir \in BOOLEAN
    /\ tree = [p \in TreePaths |-> IF iiq_dir /\ p \in Shipped THEN Original(p) ELSE NoFile]
    /\ patches_dir = FALSE
    /\ pdirs = [n \in Names |-> NoDir]
    /\ pc = "idle"
    /\ cur = NoCall
    /\ start = [tree |-> tree, patches_dir |-> patches_dir, pdirs |-> pdirs,
                undisturbed |-> TRUE]
    /\ prev = NoPrev
    /\ events = 0
    /\ codec = NoCodec
    /\ listing = NoListing
    /\ compare = NoCompare
    /\ ranged = NoRanged
    /\ valid = NoValid
    /\ cli = NoCli
    /\ tar = NoTar
    /\ params = NoParams
    /\ cleanup = NoCleanup
    /\ par = NoPar
    /\ race = NoRace

\* versions.get_patch_info: all_patches
all_patches == IF iiq_dir /\ patches_dir THEN {n \in Names : pdirs[n].exists} ELSE {}

\* the handler that ran last installed a patch that was not installed before
Installed == pc = "idle" /\ cur.op = "install" /\ cur.result = 0 /\ cur.name \notin cur.all_patches

\* a handler is entered: remember the file system and the handler before;
\* it counts as cost events
Enter(call, cost) ==
    /\ events + cost <= MaxEvents
    /\ events' = events + cost
    /\ cur' = call
    /\ start' = [tree |-> tree, patches_dir |-> patches_dir, pdirs |-> pdirs,
                 \* no handler before this one met an I/O failure, and no
                 \* file was changed between two handlers
                 undisturbed |-> start.undisturbed /\ ~cur.fault /\ cur.op # "tamper"]
    /\ prev' = IF Installed THEN [name |-> cur.name, tree |-> start.tree] ELSE NoPrev

\* return exit_code
Return(exit_code) ==
    /\ pc' = "idle"
    /\ cur' = [cur EXCEPT !.result = exit_code]

\* an I/O operation of the running handler fails
Failed ==
    /\ cur.fault \/ events < MaxEvents
    /\ events' = IF cur.fault THEN events ELSE events + 1

(***************************************************************************)
(* handle_install                                                          *)
(***************************************************************************)
\* get_patch_info, the iiq_dir test and os.mkdir(patch_info.patches_dir)
handle_install(contents, mkdir) ==
    /\ pc = "idle"
    /\ UNCHANGED <<iiq_dir, tree, pdirs, pure>>
    /\ LET call == [NoCall EXCEPT !.op = "install", !.patch = contents,
                                  !.name = contents.meta_ini.name,
                                  !.all_patches = all_patches]
       IN  IF ~iiq_dir
           THEN /\ mkdir
                /\ Enter([call EXCEPT !.result = 100], 1)
                /\ pc' = "idle"
                /\ UNCHANGED patches_dir
           ELSE IF patches_dir
           THEN \* errno 17: the directory already exists
                /\ mkdir
                /\ Enter(call, 1)
                /\ pc' = "validate"
                /\ UNCHANGED patches_dir
           ELSE IF mkdir
           THEN /\ Enter(call, 1)
                /\ pc' = "validate"
                /\ patches_dir' = TRUE
           ELSE /\ Enter([call EXCEPT !.fault = TRUE], 2)
                /\ pc' = "mkdir_failed"
                /\ UNCHANGED patches_dir

\* return doh.errno: 13 (EACCES), or another errno (30, EROFS); with debug
\* logging (log.level == 10) log.exeception is looked up first, which no
\* Logger has
handle_install_errno(errno, debug) ==
    /\ pc = "mkdir_failed"
    /\ Return(IF errno # 13 /\ debug THEN Uncaught ELSE errno)
    /\ UNCHANGED <<iiq_dir, fs, start, prev, events, pure>>

\* a handle_install without the already-installed test
handle_install_validate_again(readable) ==
    /\ pc = "validate"
    /\ UNCHANGED <<iiq_dir, fs, start, prev, pure>>
    /\ LET meta_config == cur.patch.meta_ini IN
       IF patch_is_valid_ends(cur.patch) = "AttributeError"
       THEN readable /\ Return(Uncaught) /\ UNCHANGED events
       ELSE IF ~patch_is_valid(cur.patch) THEN readable /\ Return(101) /\ UNCHANGED events
       ELSE IF ~version_ok(meta_config) THEN readable /\ Return(102) /\ UNCHANGED events
       ELSE IF ~readable
       THEN /\ ~source_is_patchable(meta_config.files, tree, readable)
            /\ Failed
            /\ pc' = "idle"
            /\ cur' = [cur EXCEPT !.result = 103, !.fault = TRUE]
       ELSE IF ~source_is_patchable(meta_config.files, tree, readable)
       THEN Return(103) /\ UNCHANGED events
       ELSE /\ pc' = "mkdir_patch_dir"
            /\ cur' = cur
            /\ UNCHANGED events

\* extract_patch_contents, patch_is_valid, the already-installed test,
\* version_ok and source_is_patchable
handle_install_validate(readable) ==
    /\ pc = "validate"
    /\ UNCHANGED <<iiq_dir, fs, start, prev, pure>>
    /\ LET meta_config == cur.patch.meta_ini IN
       IF patch_is_valid_ends(cur.patch) = "AttributeError"
       THEN readable /\ Return(Uncaught) /\ UNCHANGED events
       ELSE IF ~patch_is_valid(cur.patch) THEN readable /\ Return(101) /\ UNCHANGED events
       ELSE IF meta_config.name \in cur.all_patches THEN readable /\ Return(0) /\ UNCHANGED events
       ELSE IF ~version_ok(meta_config) THEN readable /\ Return(102) /\ UNCHANGED events
       ELSE IF ~readable
       THEN /\ ~source_is_patchable(meta_config.files, tree, readable)
            /\ Failed
            /\ pc' = "idle"
            /\ cur' = [cur EXCEPT !.result = 103, !.fault = TRUE]
       ELSE IF ~source_is_patchable(meta_config.files, tree, readable)
       THEN Return(103) /\ UNCHANGED events
       ELSE /\ pc' = "mkdir_patch_dir"
            /\ cur' = cur
            /\ UNCHANGED events

\* an IOError/OSError in install_patch: on to the except clause of handle_install;
\* injected is TRUE when the model makes the operation fail
Raise(injected) ==
    /\ pc' = "except"
    /\ IF injected
       THEN Failed /\ cur' = [cur EXCEPT !.fault = TRUE, !.raised = TRUE]
       ELSE cur' = [cur EXCEPT !.raised = TRUE] /\ UNCHANGED events
    /\ UNCHANGED fs

\* install_patch: os.mkdir(patch_dir)
install_patch_mkdir(ok) ==
    /\ pc = "mkdir_patch_dir"
    /\ UNCHANGED <<iiq_dir, start, prev, pure>>
    /\ IF ~ok THEN Raise(TRUE)
       ELSE IF pdirs[cur.name].exists THEN Raise(FALSE)
       ELSE /\ pdirs' = [pdirs EXCEPT ![cur.name] = EmptyDir]
            /\ pc' = "mkdir_backups"
            /\ cur' = cur
            /\ UNCHANGED <<tree, patches_dir, events>>

\* install_patch: os.mkdir(patch_dir_backups)
install_patch_mkdir_backups(ok) ==
    /\ pc = "mkdir_backups"
    /\ UNCHANGED <<iiq_dir, start, prev, pure>>
    /\ IF ~ok THEN Raise(TRUE)
       ELSE /\ pdirs' = [pdirs EXCEPT ![cur.name].originals = TRUE]
            /\ pc' = "backup"
            /\ cur' = [cur EXCEPT !.todo = DOMAIN cur.patch.patched_files]
            /\ UNCHANGED <<tree, patches_dir, events>>

\* install_patch: one round of the loop that backs up the source files
install_patch_backup(file_location, ok) ==
    /\ pc = "backup"
    /\ file_location \in cur.todo
    /\ UNCHANGED <<iiq_dir, start, prev, pure>>
    /\ LET backup_name == convert_patch_name(file_location, "backup") IN
       IF ~ok THEN Raise(TRUE)
       ELSE IF tree[file_location] = NoFile THEN Raise(FALSE)
       ELSE /\ pdirs' = [pdirs EXCEPT ![cur.name].backups[backup_name] = tree[file_location]]
            /\ cur' = [cur EXCEPT !.todo = @ \ {file_location}]
            /\ pc' = IF cur.todo = {file_location} THEN "readme" ELSE "backup"
            /\ UNCHANGED <<tree, patches_dir, events>>

\* install_patch: README.txt is written
install_patch_readme(ok) ==
    /\ pc = "readme"
    /\ UNCHANGED <<iiq_dir, start, prev, pure>>
    /\ IF ~ok THEN Raise(TRUE)
       ELSE /\ pdirs' = [pdirs EXCEPT ![cur.name].readme = cur.patch.readme]
            /\ pc' = "meta"
            /\ cur' = cur
            /\ UNCHANGED <<tree, patches_dir, events>>

\* install_patch: meta.ini is written
install_patch_meta(ok) ==
    /\ pc = "meta"
    /\ UNCHANGED <<iiq_dir, start, prev, pure>>
    /\ IF ~ok THEN Raise(TRUE)
       ELSE /\ pdirs' = [pdirs EXCEPT ![cur.name].has_meta = TRUE,
                                      ![cur.name].meta = cur.patch.meta_ini]
            /\ pc' = "overwrite"
            /\ cur' = [cur EXCEPT !.todo = DOMAIN cur.patch.patched_files]
            /\ UNCHANGED <<tree, patches_dir, events>>

\* an overwrite loop that puts back what it has overwritten when it fails
install_patch_overwrite_rollback(patched_file, ok, opened) ==
    /\ pc = "overwrite"
    /\ patched_file \in cur.todo
    /\ UNCHANGED <<iiq_dir, start, prev, pure>>
    /\ IF ~ok
       THEN /\ pc' = "except"
            /\ Failed
            /\ cur' = [cur EXCEPT !.fault = TRUE, !.raised = TRUE]
            /\ tree' = start.tree
            /\ UNCHANGED <<patches_dir, pdirs>>
       ELSE /\ opened
            /\ tree' = [tree EXCEPT ![patched_file] = cur.patch.patched_files[patched_file]]
            /\ cur' = [cur EXCEPT !.todo = @ \ {patched_file}, !.written = @ \cup {patched_file}]
            /\ pc' = IF cur.todo = {patched_file} THEN "idle" ELSE "overwrite"
            /\ UNCHANGED <<patches_dir, pdirs, events>>

\* install_patch: one round of the loop that overwrites the source files; when
\* it fails, open(location, 'w') raised and the file is as it was, or the
\* file was opened, which empties it, and the_file.write raised
install_patch_overwrite(patched_file, ok, opened) ==
    /\ pc = "overwrite"
    /\ patched_file \in cur.todo
    /\ UNCHANGED <<iiq_dir, start, prev, pure>>
    /\ IF ~ok
       THEN /\ pc' = "except"
            /\ Failed
            /\ cur' = [cur EXCEPT !.fault = TRUE, !.raised = TRUE]
            /\ tree' = IF opened THEN [tree EXCEPT ![patched_file] = Truncated] ELSE tree
            /\ UNCHANGED <<patches_dir, pdirs>>
       ELSE /\ opened
            /\ tree' = LET written == [tree EXCEPT ![patched_file] =
                                              cur.patch.patched_files[patched_file]]
                       IN  IF EndsWithPy(patched_file) THEN RemovePyc(written, patched_file)
                           ELSE written
            /\ cur' = [cur EXCEPT !.todo = @ \ {patched_file}, !.written = @ \cup {patched_file}]
            /\ pc' = IF cur.todo = {patched_file} THEN "idle" ELSE "overwrite"
            /\ UNCHANGED <<patches_dir, pdirs, events>>

\* an except clause that returns 104 without shutil.rmtree
handle_install_except_keep(removed) ==
    /\ pc = "except"
    /\ pc' = "idle"
    /\ cur' = [cur EXCEPT !.result = 104, !.removed = removed]
    /\ removed \/ cur.fault
    /\ UNCHANGED <<iiq_dir, tree, patches_dir, pdirs, start, prev, events, pure>>

\* shutil.rmtree(specific_patch_dir, ignore_errors=True); return 104
handle_install_except(removed) ==
    /\ pc = "except"
    /\ pc' = "idle"
    /\ cur' = [cur EXCEPT !.result = 104, !.removed = removed]
    /\ IF removed
       THEN pdirs' = [pdirs EXCEPT ![cur.name] = NoDir]
       ELSE cur.fault /\ UNCHANGED pdirs
    /\ UNCHANGED <<iiq_dir, tree, patches_dir, start, prev, events, pure>>

(***************************************************************************)
(* handle_uninstall                                                        *)
(***************************************************************************)
\* os.listdir(backups_dir)
listdir(d) == ListOf({b \in BackupNames : d.backups[b] # NoFile})

\* the checks of handle_uninstall without the md5_matches loop
uninstall_checks_names(patch_name, readable) ==
    LET d == pdirs[patch_name]
        meta_config == IF d.has_meta THEN d.meta ELSE NoMeta
    IN  IF patch_name \notin all_patches THEN 200
        ELSE IF d.has_meta /\ ~readable THEN 201
        ELSE IF ~d.originals THEN Uncaught
        ELSE IF "files" \notin meta_config.sections THEN Uncaught
        ELSE IF ~expected_backups(listdir(d), ListOf(DOMAIN meta_config.files)) THEN 202
        ELSE 0

\* the exit code the checks of handle_uninstall end in, 0 when they all pass;
\* readable is FALSE when reading meta.ini raises IOError/OSError
uninstall_checks(patch_name, readable) ==
    LET d == pdirs[patch_name]
        \* ConfigObj of a file that does not exist is an empty config
        meta_config == IF d.has_meta THEN d.meta ELSE NoMeta
    IN  IF patch_name \notin all_patches THEN 200
        ELSE IF d.has_meta /\ ~readable THEN 201
        ELSE IF ~d.originals THEN Uncaught
        ELSE IF "files" \notin meta_config.sections THEN Uncaught
        ELSE IF ~expected_backups(listdir(d), ListOf(DOMAIN meta_config.files)) THEN 202
        ELSE IF \E original_path \in DOMAIN meta_config.files :
                    ~md5_matches(d.backups[convert_patch_name(original_path, "backup")],
                                 meta_config.files[original_path])
             THEN 203
        ELSE 0

\* get_patch_info, the is_installed test, ConfigObj(meta_location), os.listdir,
\* expected_backups and the md5_matches loop
handle_uninstall(patch_name, readable) ==
    /\ pc = "idle"
    /\ LET d == pdirs[patch_name]
           exit_code == uninstall_checks(patch_name, readable)
       IN  /\ readable \/ exit_code = 201
           /\ Enter([NoCall EXCEPT !.op = "uninstall", !.name = patch_name,
                                   !.all_patches = all_patches,
                                   !.meta_config = IF d.has_meta /\ exit_code \notin {200, 201}
                                                   THEN d.meta ELSE NoMeta,
                                   !.todo = IF exit_code = 0 THEN Range(listdir(d)) ELSE {},
                                   !.result = exit_code,
                                   !.fault = ~readable,
                                   !.raised = ~readable],
                    IF readable THEN 1 ELSE 2)
           /\ pc' = IF exit_code = 0 THEN "restore" ELSE "idle"
    /\ UNCHANGED <<iiq_dir, fs, pure>>

\* restore_originals: one round of the loop; return doh.errno (5, EIO) when
\* shutil.copyfile raises
restore_originals(backup, ok) ==
    /\ pc = "restore"
    /\ backup \in cur.todo
    /\ UNCHANGED <<iiq_dir, patches_dir, pdirs, start, prev, pure>>
    /\ LET source_name == convert_patch_name(backup, "source") IN
       IF ok
       THEN /\ tree' = RemovePyc([tree EXCEPT ![source_name] = pdirs[cur.name].backups[backup]],
                                 source_name)
            /\ cur' = [cur EXCEPT !.todo = @ \ {backup}, !.written = @ \cup {source_name}]
            /\ pc' = IF cur.todo = {backup} THEN "rmtree" ELSE "restore"
            /\ UNCHANGED events
       ELSE /\ Failed
            /\ pc' = "idle"
            /\ cur' = [cur EXCEPT !.result = 5, !.fault = TRUE]
            /\ UNCHANGED tree

\* a handle_uninstall that returns 204 when shutil.rmtree raises
handle_uninstall_rmtree_204(ok) ==
    /\ pc = "rmtree"
    /\ UNCHANGED <<iiq_dir, tree, patches_dir, start, prev, pure>>
    /\ IF ok
       THEN /\ pdirs' = [pdirs EXCEPT ![cur.name] = NoDir]
            /\ Return(0)
            /\ UNCHANGED events
       ELSE /\ Failed
            /\ pc' = "idle"
            /\ cur' = [cur EXCEPT !.result = 204, !.fault = TRUE]
            /\ UNCHANGED pdirs

\* shutil.rmtree(patch_dir); return doh.errno (16, EBUSY) when it raises
handle_uninstall_rmtree(ok) ==
    /\ pc = "rmtree"
    /\ UNCHANGED <<iiq_dir, tree, patches_dir, start, prev, pure>>
    /\ IF ok
       THEN /\ pdirs' = [pdirs EXCEPT ![cur.name] = NoDir]
            /\ Return(0)
            /\ UNCHANGED events
       ELSE /\ Failed
            /\ pc' = "idle"
            /\ cur' = [cur EXCEPT !.result = 16, !.fault = TRUE]
            /\ UNCHANGED pdirs

(***************************************************************************)
(* handle_show                                                             *)
(***************************************************************************)
\* handle_show(specific_patch, log) with get_patch_info; readable is FALSE when
\* opening README.txt raises IOError/OSError
handle_show(specific_patch, readable) ==
    /\ pc = "idle"
    /\ LET is_installed == specific_patch \in all_patches
           readme == IF is_installed /\ readable THEN pdirs[specific_patch].readme ELSE 0
           exit_code == IF all_patches = {} THEN 0
                        ELSE IF specific_patch # ""
                        THEN IF ~is_installed THEN 50
                             ELSE IF readme = 0 THEN 51
                             ELSE 0
                        ELSE 0
       IN  /\ readable \/ (is_installed /\ pdirs[specific_patch].readme # 0)
           /\ Enter([NoCall EXCEPT !.op = "show", !.name = specific_patch,
                                   !.all_patches = all_patches,
                                   !.result = exit_code,
                                   !.fault = ~readable], 1)
    /\ pc' = "idle"
    /\ UNCHANGED <<iiq_dir, fs, pure>>

(***************************************************************************)
(* The environment                                                         *)
(***************************************************************************)
\* a backup under originals/ is corrupted between two runs of the tool
Tamper(n, backup, data) ==
    /\ pc = "idle"
    /\ events < MaxEvents
    /\ events' = events + 1
    /\ pdirs[n].originals
    /\ pdirs[n].backups[backup] # NoFile
    /\ data # pdirs[n].backups[backup]
    /\ pdirs' = [pdirs EXCEPT ![n].backups[backup] = data]
    /\ cur' = [NoCall EXCEPT !.op = "tamper", !.name = n]
    /\ start' = [tree |-> tree, patches_dir |-> patches_dir, pdirs |-> pdirs',
                 undisturbed |-> FALSE]
    /\ prev' = NoPrev
    /\ UNCHANGED <<iiq_dir, tree, patches_dir, pc, pure>>

Next ==
    \/ \E contents \in PatchFiles, mkdir \in BOOLEAN : handle_install(contents, mkdir)
    \/ \E errno \in {13, 30}, debug \in BOOLEAN : handle_install_errno(errno, debug)
    \/ \E readable \in BOOLEAN : handle_install_validate(readable)
    \/ \E ok \in BOOLEAN : install_patch_mkdir(ok)
    \/ \E ok \in BOOLEAN : install_patch_mkdir_backups(ok)
    \/ \E file_location \in Paths, ok \in BOOLEAN : install_patch_backup(file_location, ok)
    \/ \E ok \in BOOLEAN : install_patch_readme(ok)
    \/ \E ok \in BOOLEAN : install_patch_meta(ok)
    \/ \E patched_file \in Paths, ok \in BOOLEAN, opened \in BOOLEAN :
           install_patch_overwrite(patched_file, ok, opened)
    \/ \E removed \in BOOLEAN : handle_install_except(removed)
    \/ \E patch_name \in Names, readable \in BOOLEAN : handle_uninstall(patch_name, readable)
    \/ \E backup \in BackupNames, ok \in BOOLEAN : restore_originals(backup, ok)
    \/ \E ok \in BOOLEAN : handle_uninstall_rmtree(ok)
    \/ \E specific_patch \in Names \cup {""}, readable \in BOOLEAN :
           handle_show(specific_patch, readable)
    \/ \E n \in Names, backup \in BackupNames, data \in Contents : Tamper(n, backup, data)

Spec == Init /\ [][Next]_vars

(***************************************************************************)
(* Properties of handle_install and handle_uninstall                       *)
(***************************************************************************)
\* the handler that ran last, and how it ended
Ended(op) == pc = "idle" /\ cur.op = op
Unchanged == tree = start.tree /\ patches_dir = start.patches_dir /\ pdirs = start.pdirs
\* the archive carries new content for exactly the files meta.ini declares
Consistent(contents) == DOMAIN contents.patched_files = DOMAIN contents.meta_ini.files
\* handle_install got as far as reading the patch file
PatchRead == Ended("install") /\ iiq_dir /\ patches_dir

\* C1: after a patch is installed (exit 0) every file of its manifest holds the
\* patch's new content; when the same patch is then uninstalled (exit 0) every
\* one of these files holds again the content it had before the install, and
\* the patch directory is gone
InstallUninstallRoundTrip ==
    /\ (Installed /\ Consistent(cur.patch)) =>
           \A f \in DOMAIN cur.patch.meta_ini.files : tree[f] = cur.patch.patched_files[f]
    /\ (Ended("uninstall") /\ cur.result = 0 /\ prev.name = cur.name) =>
           /\ \A f \in DOMAIN cur.meta_config.files : tree[f] = prev.tree[f]
           /\ ~pdirs[cur.name].exists

\* C2 as stated: a patch one of whose files does not hash to the checksum the
\* manifest records is refused with 103, and the tree and the patches root
\* are what they were
UnpatchableLeavesAllUnchanged ==
    (/\ PatchRead
     /\ patch_is_valid(cur.patch)
     /\ cur.name \notin cur.all_patches
     /\ version_ok(cur.patch.meta_ini)
     /\ \E f \in DOMAIN cur.patch.meta_ini.files :
            cur.patch.meta_ini.files[f] # Md5(start.tree[f]))
    => (cur.result = 103 /\ Unchanged)

\* C2: a patch one of whose files does not hash to the checksum the manifest
\* records is refused with 103; the tree and every patch directory are what
\* they were, and the patches root exists, created empty when it was absent
UnpatchableLeavesTreeUnchanged ==
    (/\ PatchRead
     /\ patch_is_valid(cur.patch)
     /\ cur.name \notin cur.all_patches
     /\ version_ok(cur.patch.meta_ini)
     /\ \E f \in DOMAIN cur.patch.meta_ini.files :
            cur.patch.meta_ini.files[f] # Md5(start.tree[f]))
    => (cur.result = 103 /\ tree = start.tree /\ pdirs = start.pdirs /\ patches_dir)

UnpatchableCreatedRoot ==
    /\ PatchRead
    /\ cur.result = 103
    /\ \E f \in DOMAIN cur.patch.meta_ini.files :
           cur.patch.meta_ini.files[f] # Md5(start.tree[f])
    /\ ~start.patches_dir
    /\ patches_dir

\* C3: no source file is overwritten before every file of the patch is backed
\* up and README.txt and meta.ini are written: once install_patch has
\* overwritten a source file, and as long as the patch directory has not been
\* removed again, originals/ holds for every file of the archive a backup with
\* the content the file had before the install
BackupsBeforeOverwrite ==
    (cur.op = "install" /\ cur.written # {} /\ ~(pc = "idle" /\ cur.result = 104))
    => LET d == pdirs[cur.name] IN
       /\ d.exists /\ d.originals
       /\ \A f \in DOMAIN cur.patch.patched_files :
              /\ start.tree[f] # NoFile
              /\ d.backups[convert_patch_name(f, "backup")] = start.tree[f]
       /\ d.readme = cur.patch.readme
       /\ d.has_meta /\ d.meta = cur.patch.meta_ini

\* C4: handle_uninstall of an installed patch whose meta.ini can be read
\* returns 202 when the names under originals/ are not the backup names of
\* the files of the manifest, and 203 when they are and a backup does not
\* hash to the recorded checksum; in both cases the tree and the patch
\* directories are what they were
UninstallValidatesBackups ==
    LET d == start.pdirs[cur.name]
        found == {b \in BackupNames : d.backups[b] # NoFile}
        wanted == {convert_patch_name(f, "backup") : f \in DOMAIN d.meta.files}
        corrupt == {f \in DOMAIN d.meta.files :
                        d.meta.files[f] # Md5(d.backups[convert_patch_name(f, "backup")])}
    IN  (/\ cur.op = "uninstall"
         /\ ~(pc = "idle" /\ cur.result = 201)
         /\ cur.name \in cur.all_patches
         /\ d.originals /\ d.has_meta)
        => /\ found # wanted => (Ended("uninstall") /\ cur.result = 202 /\ Unchanged)
           /\ (found = wanted /\ corrupt # {})
                  => (Ended("uninstall") /\ cur.result = 203 /\ Unchanged)

CorruptBackupRefused ==
    LET d == pdirs[cur.name] IN
    /\ Ended("uninstall")
    /\ cur.result = 203
    /\ Unchanged
    /\ \E f, g \in DOMAIN d.meta.files :
           /\ d.meta.files[f] # Md5(d.backups[convert_patch_name(f, "backup")])
           /\ d.meta.files[g] = Md5(d.backups[convert_patch_name(g, "backup")])
           /\ tree[g] # d.backups[convert_patch_name(g, "backup")]

\* C5 as stated: when an I/O operation of install_patch fails, handle_install
\* returns 104 and the directory of the patch is gone, so that the patch is
\* not among the installed patches
InstallFailureRemovesDirectory ==
    (Ended("install") /\ cur.raised)
    => (cur.result = 104 /\ ~pdirs[cur.name].exists /\ cur.name \notin all_patches)

\* C5: when an I/O operation of install_patch fails, handle_install returns
\* 104; the directory of the patch is gone, and the patch not among the
\* installed patches, whenever the removal itself did not fail
InstallFailureReturns104 ==
    (Ended("install") /\ cur.raised)
    => /\ cur.result = 104
       /\ cur.removed => (~pdirs[cur.name].exists /\ cur.name \notin all_patches)

FailedInstallCleanedUp ==
    /\ Ended("install")
    /\ cur.raised
    /\ cur.removed
    /\ cur.written # {}
    /\ ~pdirs[cur.name].exists

\* C6: handle_install of a valid patch whose name is among the installed
\* patches returns 0 and changes nothing: installing a patch a second time
\* leaves what installing it once left
ReinstallIsNoOp ==
    (PatchRead /\ patch_is_valid(cur.patch) /\ cur.name \in cur.all_patches)
    => (cur.result = 0 /\ Unchanged)

InstalledTwice ==
    /\ PatchRead
    /\ cur.result = 0
    /\ cur.name \in cur.all_patches
    /\ prev.name = cur.name
    /\ \E f \in DOMAIN cur.patch.meta_ini.files : tree[f] # prev.tree[f]

\* C7: handle_install returns 100 when the install directory is absent, 101
\* when the patch file is malformed and 102 when the version is out of range;
\* with each of these codes the tree and every directory under the patches
\* root are what they were
EarlyRejectionChangesNothing ==
    /\ (Ended("install") /\ ~iiq_dir) => cur.result = 100
    /\ (PatchRead /\ patch_is_valid_ends(cur.patch) = "False") => cur.result = 101
    /\ (/\ PatchRead
        /\ patch_is_valid(cur.patch)
        /\ cur.name \notin cur.all_patches
        /\ ~(/\ VersionLe(cur.patch.meta_ini.minimum, IiqVersion)
             /\ VersionLe(IiqVersion, cur.patch.meta_ini.maximum)))
       => cur.result = 102
    /\ (Ended("install") /\ cur.result \in {100, 101, 102})
       => (tree = start.tree /\ pdirs = start.pdirs)

WrongVersionRejected ==
    /\ Ended("install")
    /\ cur.result = 102
    /\ ~start.patches_dir
    /\ patches_dir
    /\ all_patches = {}

\* C8: when patch A has just been installed and has changed file F, the
\* install of another patch B, not among the installed patches, whose manifest
\* records for F the checksum F had before A returns 103 and changes nothing
SecondPatchRejected ==
    (/\ PatchRead
     /\ prev.name # ""
     /\ prev.name # cur.name
     /\ cur.name \notin cur.all_patches
     /\ patch_is_valid(cur.patch)
     /\ version_ok(cur.patch.meta_ini)
     /\ \E F \in DOMAIN cur.patch.meta_ini.files :
            /\ start.tree[F] # prev.tree[F]
            /\ cur.patch.meta_ini.files[F] = Md5(prev.tree[F]))
    => (cur.result = 103 /\ Unchanged)

SecondPatchOverSameFile ==
    /\ PatchRead
    /\ cur.result = 103
    /\ prev.name \notin {"", cur.name}
    /\ \E F \in DOMAIN cur.patch.meta_ini.files :
           /\ start.tree[F] # prev.tree[F]
           /\ cur.patch.meta_ini.files[F] = Md5(prev.tree[F])

UnreadableMetaEndsIn201 ==
    (/\ Ended("uninstall")
     /\ cur.name \in cur.all_patches
     /\ cur.raised \/ ~start.pdirs[cur.name].has_meta)
    => (cur.result = 201 /\ tree = start.tree /\ pdirs = start.pdirs)

\* shutil.rmtree failed after restore_originals had restored every backup
RmtreeFailed ==
    /\ Ended("uninstall")
    /\ cur.written # {}
    /\ cur.todo = {}
    /\ pdirs[cur.name].exists

\* C18: when deleting the patch directory fails after the restore, the exit
\* code is not 0 and every file the patch declares has its original content
RmtreeFailureKeepsOriginals ==
    RmtreeFailed
    => /\ cur.result # 0
       /\ \A f \in DOMAIN cur.meta_config.files :
              Md5(tree[f]) = cur.meta_config.files[f]

\* C20: handle_show of a patch name ends in 50 when the name is not among the
\* installed patches, in 51 when it is and its README.txt is missing, empty
\* or unreadable, and in 0 only when it is installed and the readme was shown
ShowTellsMissingFromUnreadable ==
    (Ended("show") /\ cur.name # "")
    => LET is_installed == cur.name \in cur.all_patches
           no_readme == cur.fault \/ pdirs[cur.name].readme = 0
       IN  /\ ~is_installed => cur.result = 50
           /\ (is_installed /\ no_readme) => cur.result = 51
           /\ cur.result = 0 => (is_installed /\ ~no_readme)

\* the files the manifest of the running handler declares
Declared ==
    IF cur.op = "install" THEN DOMAIN cur.patch.meta_ini.files
    ELSE IF cur.op = "uninstall" THEN DOMAIN cur.meta_config.files
    ELSE {}

\* C21: install and uninstall change the application tree only at the paths
\* the manifest declares, and at the compiled file next to a declared .py file
OnlyDeclaredFilesTouched ==
    cur.op \in {"install", "uninstall"}
    => \A p \in TreePaths :
           tree[p] # start.tree[p]
           => \/ p \in Declared
              \/ \E f \in Declared : EndsWithPy(f) /\ p = Pyc(f)

\* the patches other than the one the handler is about that were installed,
\* with files disjoint from its files, when the handler was entered
DisjointOthers ==
    {n \in Names \ {cur.name} :
        /\ n \in cur.all_patches
        /\ start.pdirs[n].has_meta
        /\ DOMAIN start.pdirs[n].meta.files \cap Declared = {}}

\* C23: with another patch of disjoint files installed, an install changes its
\* own files to the patch's content and nothing else, whichever patch came
\* first, and an uninstall restores its own files and leaves every other
\* file and the other patch's directory as they were
DisjointPatchesIndependent ==
    /\ (Installed /\ DisjointOthers # {})
       => \A p \in TreePaths :
              IF p \in Declared
              THEN p \in DOMAIN cur.patch.patched_files /\ tree[p] = cur.patch.patched_files[p]
              ELSE tree[p] = start.tree[p]
    /\ (Ended("uninstall") /\ cur.result = 0 /\ DisjointOthers # {})
       => /\ \A p \in TreePaths :
                 IF p \in Declared
                 THEN Md5(tree[p]) = cur.meta_config.files[p]
                 ELSE tree[p] = start.tree[p]
          /\ \A n \in DisjointOthers : pdirs[n] = start.pdirs[n]

\* an I/O failure in the overwrite loop after a live file was overwritten
OverwriteFailed ==
    /\ Ended("install")
    /\ cur.raised
    /\ cur.written # {}

\* C24 as stated: after a failure in the overwrite loop handle_install returns
\* 104, the patch directory is deleted, the overwritten files hold the patch's
\* content and every other file its original content
PartialInstallAsStated ==
    OverwriteFailed
    => /\ cur.result = 104
       /\ ~pdirs[cur.name].exists
       /\ \A p \in cur.written : tree[p] = cur.patch.patched_files[p]
       /\ \A p \in TreePaths \ cur.written : tree[p] = start.tree[p]

\* C24: after a failure in the overwrite loop handle_install returns 104, the
\* patch directory is deleted unless its removal failed, the overwritten files
\* hold the patch's content, and every other file its original content, but
\* for the one file whose write failed, which may be left truncated
PartialInstallNotRolledBack ==
    OverwriteFailed
    => /\ cur.result = 104
       /\ cur.removed => ~pdirs[cur.name].exists
       /\ \A p \in cur.written : tree[p] = cur.patch.patched_files[p]
       /\ \A p \in TreePaths \ cur.written :
              tree[p] = start.tree[p] \/ (p \in cur.todo /\ tree[p] = Truncated)
       /\ Cardinality({p \in TreePaths : tree[p] # start.tree[p]} \ cur.written) <= 1

\* one file overwritten, the write of the next failed and truncated it, and
\* the patch directory with the backups of both is gone
PartiallyPatchedNoBackups ==
    /\ OverwriteFailed
    /\ cur.result = 104
    /\ ~pdirs[cur.name].exists
    /\ \E p \in cur.todo : tree[p] = Truncated

\* every handler so far ran to completion without an I/O failure, and nothing
\* but the handlers changed the files
Undisturbed == pc = "idle" /\ start.undisturbed /\ ~cur.fault /\ cur.op # "tamper"

\* C28: after installs and uninstalls that ran to completion without I/O
\* failure and without a change from outside, when no patch is listed as
\* installed every source file of the tree holds its original content
NoPatchListedMeansOriginalTree ==
    (Undisturbed /\ iiq_dir /\ all_patches = {})
    => \A p \in Paths : tree[p] = Original(p)

SeqsUpTo(S, n) == UNION {[1..k -> S] : k \in 0..n}

\* relative paths: not empty, no leading or trailing slash, no empty component
RelPaths ==
    {n \in SeqsUpTo(Chars, MaxLen) :
        /\ n # <<>>
        /\ Head(n) # "/"
        /\ n[Len(n)] # "/"
        /\ \A i \in 1..(Len(n) - 1) : ~(n[i] = "/" /\ n[i + 1] = "/")}

\* the source files and the names under originals/ that listings are made of
ListedPaths == {FileC, FileA_B, FileAB}
ListedBackups == {convert_patch_name(p, "backup") : p \in ListedPaths} \cup {<<"x">>}

\* version strings of two to SemverLen components
VersionStrings == {v \in SeqsUpTo(Tokens, SemverLen) : Len(v) >= 2}
\* the ranges a manifest gives: minimum and maximum of two components
RangeEnds == {v \in VersionStrings : Len(v) = 2}

CodecInputs == {[NoCodec EXCEPT !.name = n, !.step = "given"] : n \in RelPaths}
ListingInputs ==
    {[NoListing EXCEPT !.found = f, !.expected = e, !.verdict = "given"] :
        f \in SeqsUpTo(ListedBackups, MaxFound), e \in SeqsUpTo(ListedPaths, MaxFound)}
CompareInputs ==
    {[NoCompare EXCEPT !.a = a, !.b = b, !.step = "given"] : a \in VersionStrings, b \in VersionStrings}
RangedInputs ==
    {[NoRanged EXCEPT !.minimum = lo, !.iiq_version = v, !.maximum = hi, !.step = "given"] :
        lo \in RangeEnds, v \in VersionStrings, hi \in RangeEnds}

\* a path that starts at the root
FileAbs == <<"/", "c">>
\* the keys at the top of a meta.ini: which are sections, which are values
Layouts ==
    {<<secs, {}>> : secs \in {Sections, Sections \cup {"extra"}, Sections \ {"files"}}}
    \cup {<<Sections \ scal, scal>> : scal \in {{"info"}, {"version"}, {"files"}, Sections}}
FieldSets(fields) == {fields, fields \cup {"extra"}, {CHOOSE f \in fields : TRUE}}
\* the meta.ini texts patch_is_valid is given
Manifests ==
    {NoMeta}
    \cup {[sections |-> layout[1], scalars |-> layout[2], info |-> info, version |-> version,
            name |-> "pA", minimum |-> <<4, 0>>, maximum |-> <<4, 1, 1>>,
            files |-> [p \in F |-> Md5(Pristine)]] :
              layout \in Layouts, info \in FieldSets({"name", "bug"}),
              version \in FieldSets({"minimum", "maximum"}),
              F \in {{}, {FileC}, {FileAbs}, {FileC, FileAbs}}}
ValidInputs ==
    {[NoValid EXCEPT !.contents = PatchContents(readme, meta_ini, [p \in F |-> Patched]),
                     !.outcome = "given"] :
        readme \in {0, 1}, meta_ini \in Manifests, F \in {{}, {FileC}}}

\* what the members of a patch file are: directories, meta.ini, README.txt
\* and source files
MemberKinds == {"dir", "meta.ini", "README.txt", "source"}
\* the patch files extract_patch_contents is given: the members in the order of
\* the archive, and the member whose data cannot be read (0: every one can)
TarInputs ==
    {[NoTar EXCEPT !.members = members, !.unreadable = unreadable, !.outcome = "given"] :
        members \in SeqsUpTo(MemberKinds, MaxMembers), unreadable \in 0..MaxMembers}

\* the names and the values of HTTP query parameters
ParamNames == {"x", "y"}
ParamValues == {1, 2}
\* Parameters._data: a list of [key, value] entries
ParamLists == SeqsUpTo(ParamNames \X ParamValues, MaxParams)
\* params[key] = value on every Parameters object of the model
ParamsInputs ==
    {[NoParams EXCEPT !.data = data, !.key = key, !.value = value, !.step = "given"] :
        data \in ParamLists, key \in ParamNames, value \in ParamValues}

\* os.listdir(location) of a directory of backups, each insightiq_export_<t>.zip
\* given by its timestamp t: any order, no name twice
BackupListings ==
    {found \in SeqsUpTo(1..MaxBackups, MaxBackups) :
        \A i, j \in DOMAIN found : found[i] = found[j] => i = j}
CleanupInputs ==
    {[NoCleanup EXCEPT !.found = found, !.max_backups = max_backups, !.outcome = "given"] :
        found \in BackupListings, max_backups \in 0..2}

\* the exit codes the handler of a command returns to main: 0 and one failure
HandlerCodes(command) ==
    {0} \cup (IF command = "install" THEN {101}
              ELSE IF command = "uninstall" THEN {200}
              ELSE {50})
\* the runs of main: the command given, the exit code of its handler, whether
\* the user is root, the exit code of `service insightiq restart`
CliInputs ==
    {[NoCli EXCEPT !.command = run[1], !.exit_code = run[2], !.root = run[3],
                   !.restart = run[4], !.outcome = "given"] :
        run \in {r \in {"install", "uninstall", "show"} \X {0, 50, 101, 200} \X BOOLEAN \X {0, 1} :
                    r[2] \in HandlerCodes(r[1])}}

InitPure ==
    /\ iiq_dir = TRUE
    /\ tree = [p \in TreePaths |-> IF p \in Shipped THEN Original(p) ELSE NoFile]
    /\ patches_dir = FALSE
    /\ pdirs = [n \in Names |-> NoDir]
    /\ pc = "idle"
    /\ cur = NoCall
    /\ start = [tree |-> tree, patches_dir |-> patches_dir, pdirs |-> pdirs,
                undisturbed |-> TRUE]
    /\ prev = NoPrev
    /\ events = 0
    \* one call of one function
    /\ \/ /\ codec \in CodecInputs
          /\ listing = NoListing /\ compare = NoCompare /\ ranged = NoRanged
          /\ valid = NoValid /\ cli = NoCli /\ tar = NoTar
          /\ params = NoParams /\ cleanup = NoCleanup /\ par = NoPar
          /\ race = NoRace
       \/ /\ listing \in ListingInputs
          /\ codec = NoCodec /\ compare = NoCompare /\ ranged = NoRanged
          /\ valid = NoValid /\ cli = NoCli /\ tar = NoTar
          /\ params = NoParams /\ cleanup = NoCleanup /\ par = NoPar
          /\ race = NoRace
       \/ /\ compare \in CompareInputs
          /\ codec = NoCodec /\ listing = NoListing /\ ranged = NoRanged
          /\ valid = NoValid /\ cli = NoCli /\ tar = NoTar
          /\ params = NoParams /\ cleanup = NoCleanup /\ par = NoPar
          /\ race = NoRace
       \/ /\ ranged \in RangedInputs
          /\ codec = NoCodec /\ listing = NoListing /\ compare = NoCompare
          /\ valid = NoValid /\ cli = NoCli /\ tar = NoTar
          /\ params = NoParams /\ cleanup = NoCleanup /\ par = NoPar
          /\ race = NoRace
       \/ /\ valid \in ValidInputs
          /\ codec = NoCodec /\ listing = NoListing /\ compare = NoCompare
          /\ ranged = NoRanged /\ cli = NoCli /\ tar = NoTar
          /\ params = NoParams /\ cleanup = NoCleanup /\ par = NoPar
          /\ race = NoRace
       \/ /\ cli \in CliInputs
          /\ codec = NoCodec /\ listing = NoListing /\ compare = NoCompare
          /\ ranged = NoRanged /\ valid = NoValid /\ tar = NoTar
          /\ params = NoParams /\ cleanup = NoCleanup /\ par = NoPar
          /\ race = NoRace
       \/ /\ tar \in TarInputs
          /\ codec = NoCodec /\ listing = NoListing /\ compare = NoCompare
          /\ ranged = NoRanged /\ valid = NoValid /\ cli = NoCli
          /\ params = NoParams /\ cleanup = NoCleanup /\ par = NoPar
          /\ race = NoRace
       \/ /\ params \in ParamsInputs
          /\ codec = NoCodec /\ listing = NoListing /\ compare = NoCompare
          /\ ranged = NoRanged /\ valid = NoValid /\ cli = NoCli
          /\ tar = NoTar /\ cleanup = NoCleanup /\ par = NoPar /\ race = NoRace
       \/ /\ cleanup \in CleanupInputs
          /\ codec = NoCodec /\ listing = NoListing /\ compare = NoCompare
          /\ ranged = NoRanged /\ valid = NoValid /\ cli = NoCli
          /\ tar = NoTar /\ params = NoParams /\ par = NoPar /\ race = NoRace

\* convert_patch_name(name, to='backup')
to_backup ==
    /\ codec.step = "given"
    /\ codec' = [codec EXCEPT !.backup = convert_patch_name(codec.name, "backup"),
                              !.step = "backup"]
    /\ UNCHANGED <<handlers, listing, compare, ranged, valid, cli, tar, params, cleanup, par, race>>

\* convert_patch_name(name, to='source') of the backup name
to_source ==
    /\ codec.step = "backup"
    /\ codec' = [codec EXCEPT !.source = convert_patch_name(codec.backup, "source"),
                              !.step = "source"]
    /\ UNCHANGED <<handlers, listing, compare, ranged, valid, cli, tar, params, cleanup, par, race>>

\* expected_backups(found_backups, expected_backups, log)
check_backups ==
    /\ listing.verdict = "given"
    /\ listing' = [listing EXCEPT !.verdict =
                       IF expected_backups(listing.found, listing.expected)
                       THEN "True" ELSE "False"]
    /\ UNCHANGED <<handlers, codec, compare, ranged, valid, cli, tar, params, cleanup, par, race>>

\* Version(a) and Version(b) compared with every operator, and hashed
compare_versions ==
    /\ compare.step = "given"
    /\ LET a == VersionOf(compare.a)
           b == VersionOf(compare.b)
       IN  compare' = [compare EXCEPT !.lt = VersionLt(a, b), !.gt = VersionGt(a, b),
                                      !.le = VersionLe(a, b), !.ge = VersionGe(a, b),
                                      !.eq = VersionEq(a, b), !.ne = VersionNe(a, b),
                                      !.hash_a = VersionHash(compare.a),
                                      !.hash_b = VersionHash(compare.b),
                                      !.step = "done"]
    /\ UNCHANGED <<handlers, codec, listing, ranged, valid, cli, tar, params, cleanup, par, race>>

\* version_ok(version_info, log) with get_iiq_version() returning iiq_version
check_version ==
    /\ ranged.step = "given"
    /\ ranged' = [ranged EXCEPT !.ok = version_in_range(VersionOf(ranged.minimum),
                                                        VersionOf(ranged.iiq_version),
                                                        VersionOf(ranged.maximum)),
                                !.step = "done"]
    /\ UNCHANGED <<handlers, codec, listing, compare, valid, cli, tar, params, cleanup, par, race>>

\* shell.run_cmd(cli_syntax): CliError when the exit code is not zero
run_cmd(exit_code) == IF exit_code # 0 THEN "CliError" ELSE "CliResult"

\* main(the_cli_args) after its handler returned exit_code
main ==
    /\ cli.outcome = "given"
    /\ LET restarts == cli.exit_code = 0 /\ cli.command \in {"install", "uninstall"}
       IN  IF restarts /\ cli.root /\ run_cmd(cli.restart) = "CliError"
           THEN cli' = [cli EXCEPT !.outcome = "CliError"]
           ELSE cli' = [cli EXCEPT !.outcome = "returned", !.returned = cli.exit_code]
    /\ UNCHANGED <<handlers, codec, listing, compare, ranged, valid, tar, params, cleanup, par, race>>

RECURSIVE ExtractFrom(_, _)
\* extract_patch_contents: the loop over tar_contents from member idx, then
\* the_tar.close(); the_tar.extractfile(item.path).read() raises for the
\* unreadable member
ExtractFrom(the_tar, idx) ==
    IF idx > Len(the_tar.members)
    THEN [the_tar EXCEPT !.closed = TRUE, !.outcome = "returned"]
    ELSE LET item == the_tar.members[idx] IN
         IF item = "dir" THEN ExtractFrom(the_tar, idx + 1)
         ELSE IF idx = the_tar.unreadable THEN [the_tar EXCEPT !.outcome = "IOError"]
         ELSE IF item = "meta.ini" THEN ExtractFrom([the_tar EXCEPT !.meta_ini = 1], idx + 1)
         ELSE IF item = "README.txt" THEN ExtractFrom([the_tar EXCEPT !.readme = 1], idx + 1)
         ELSE ExtractFrom([the_tar EXCEPT !.patched_files = @ \cup {idx}], idx + 1)

\* extract_patch_contents(patch_path, log): tarfile.open, the loop, close
extract_patch_contents ==
    /\ tar.outcome = "given"
    /\ tar' = ExtractFrom([tar EXCEPT !.closed = FALSE], 1)
    /\ UNCHANGED <<handlers, codec, listing, compare, ranged, valid, cli, params, cleanup, par, race>>

\* Parameters.__setitem__(key, value): the for loop has no break, so every
\* entry of the key is set and the else clause of the loop always runs
setitem(data, key, value) ==
    Append([i \in DOMAIN data |-> IF data[i][1] = key THEN <<key, value>> ELSE data[i]],
           <<key, value>>)

\* params[key] = value
Parameters_setitem ==
    /\ params.step = "given"
    /\ params' = [params EXCEPT !.after = setitem(params.data, params.key, params.value),
                                !.step = "done"]
    /\ UNCHANGED <<handlers, codec, listing, compare, ranged, valid, cli, tar, cleanup, par, race>>

\* list.pop(idx) with idx counted from 0: the list without that element
Pop(list, idx) == SubSeq(list, 1, idx) \o SubSeq(list, idx + 2, Len(list))

RECURSIVE PopLoop(_, _, _, _)
\* _cleanup_backups: for idx in range(extra_backups):
\*     to_delete.append(backups_found.pop(idx))
PopLoop(backups_found, to_delete, idx, extra_backups) ==
    IF idx >= extra_backups THEN [to_delete |-> to_delete, outcome |-> "returned"]
    ELSE IF idx >= Len(backups_found) THEN [to_delete |-> <<>>, outcome |-> "IndexError"]
    ELSE PopLoop(Pop(backups_found, idx), Append(to_delete, backups_found[idx + 1]),
                 idx + 1, extra_backups)

\* _cleanup_backups(location, max_backups): the backups handed to os.remove
\* and how the call ends
cleanup_backups(found, max_backups) ==
    IF max_backups = 0 THEN [to_delete |-> <<>>, outcome |-> "returned"]
    ELSE LET extra_backups == IF Len(found) - max_backups > 0
                              THEN Len(found) - max_backups ELSE 0
         IN  IF extra_backups > 0
             THEN PopLoop(SortSeq(found, LAMBDA a, b : a < b), <<>>, 0, extra_backups)
             ELSE [to_delete |-> <<>>, outcome |-> "returned"]

\* _cleanup_backups(location, max_backups)
_cleanup_backups ==
    /\ cleanup.outcome = "given"
    /\ LET ended == cleanup_backups(cleanup.found, cleanup.max_backups)
       IN  cleanup' = [cleanup EXCEPT !.to_delete = ended.to_delete,
                                      !.outcome = ended.outcome]
    /\ UNCHANGED <<handlers, codec, listing, compare, ranged, valid, cli, tar, params, par, race>>

\* patch_is_valid(contents, log)
validate_patch ==
    /\ valid.outcome = "given"
    /\ valid' = [valid EXCEPT !.outcome = patch_is_valid_ends(valid.contents)]
    /\ UNCHANGED <<handlers, codec, listing, compare, ranged, cli, tar, params, cleanup, par, race>>

NextPure ==
    \/ to_backup
    \/ to_source
    \/ check_backups
    \/ compare_versions
    \/ check_version
    \/ validate_patch
    \/ main
    \/ extract_patch_contents
    \/ Parameters_setitem
    \/ _cleanup_backups

SpecPure == InitPure /\ [][NextPure]_vars

(***************************************************************************)
(* Properties of the pure functions                                        *)
(***************************************************************************)
\* the escape sequence occurs in name
HasEscape(name) ==
    \E i \in 1..(Len(name) - 2) : name[i] = "_" /\ name[i + 1] = "_" /\ name[i + 2] = "_"

\* C9: a relative path without the escape sequence ___, converted to its
\* backup name and back, is the path again
CodecRoundTrip ==
    (codec.step = "source" /\ ~HasEscape(codec.name)) => codec.source = codec.name

\* C10: expected_backups is true exactly when the set of the found names is
\* the set of the backup names of the expected paths and no found name
\* occurs twice
ExpectedBackupsIffSameSet ==
    listing.verdict \in {"True", "False"}
    => (listing.verdict = "True"
        <=> /\ \A i \in DOMAIN listing.found :
                   \E j \in DOMAIN listing.expected :
                       listing.found[i] = ReplaceSlash(listing.expected[j])
            /\ \A j \in DOMAIN listing.expected :
                   \E i \in DOMAIN listing.found :
                       listing.found[i] = ReplaceSlash(listing.expected[j])
            /\ \A i, j \in DOMAIN listing.found : listing.found[i] = listing.found[j] => i = j)

DuplicateListingRefused ==
    /\ listing.verdict = "False"
    /\ Len(listing.found) = 2
    /\ listing.found[1] = listing.found[2]
    /\ Range(listing.expected) # {}
    /\ \A j \in DOMAIN listing.expected : listing.found[1] = ReplaceSlash(listing.expected[j])

\* the order the comparisons are held to: component by component, an absent
\* component below every number
Key(v, i) == IF i <= Len(v) THEN v[i] + 1 ELSE 0
LexLt(a, b) ==
    \E i \in 1..SemverLen :
        /\ Key(a, i) < Key(b, i)
        /\ \A j \in 1..(i - 1) : Key(a, j) = Key(b, j)
LexEq(a, b) == \A i \in 1..SemverLen : Key(a, i) = Key(b, i)
Compared == compare.step = "done"
A == VersionOf(compare.a)
B == VersionOf(compare.b)

\* C11: version_ok is true exactly when the installed version is at or above
\* the minimum and at or below the maximum, both ends included
VersionOkIffInRange ==
    ranged.step = "done"
    => LET lo == VersionOf(ranged.minimum)
           v == VersionOf(ranged.iiq_version)
           hi == VersionOf(ranged.maximum)
       IN  ranged.ok <=> /\ (LexLt(lo, v) \/ LexEq(lo, v))
                         /\ (LexLt(v, hi) \/ LexEq(v, hi))

\* the installed version is the maximum itself, above the minimum, and accepted
MaximumAccepted ==
    /\ ranged.step = "done"
    /\ ranged.ok
    /\ ranged.iiq_version = ranged.maximum
    /\ ranged.minimum # ranged.maximum

\* C12: for version strings of two to four components exactly one of a < b,
\* a == b, a > b holds, a <= b is (a < b or a == b), a >= b is
\* (a > b or a == b), and a != b is the negation of a == b
ComparisonsAreATotalOrder ==
    Compared
    => /\ (compare.lt \/ compare.eq \/ compare.gt)
       /\ ~(compare.lt /\ compare.eq)
       /\ ~(compare.lt /\ compare.gt)
       /\ ~(compare.eq /\ compare.gt)
       /\ compare.le <=> (compare.lt \/ compare.eq)
       /\ compare.ge <=> (compare.gt \/ compare.eq)
       /\ compare.ne <=> ~compare.eq

\* two strings written differently that are the same version: equal, and both
\* <= and >= hold
SameVersionWrittenTwice ==
    /\ Compared
    /\ compare.a # compare.b
    /\ Len(compare.a) = SemverLen
    /\ compare.eq /\ compare.le /\ compare.ge

\* C13: a < b is the lexicographic order over major, minor, patch and build
\* with an absent trailing component below zero, so a version is below every
\* version that extends it
LessThanIsLexicographic ==
    Compared
    => /\ compare.lt <=> LexLt(A, B)
       /\ (Len(A) < Len(B) /\ SubSeq(B, 1, Len(A)) = A) => compare.lt

\* 1.0 against 1.0.0: the shorter one is less
ShorterBelowZeroExtension ==
    /\ Compared
    /\ Len(A) < Len(B)
    /\ SubSeq(B, 1, Len(A)) = A
    /\ \A i \in (Len(A) + 1)..Len(B) : B[i] = 0
    /\ compare.lt /\ ~compare.gt

\* C14: two Versions are equal exactly when their four components are equal,
\* absence equal to absence only, and equal Versions have equal hashes
EqualVersionsHashEqual ==
    Compared
    => /\ compare.eq <=> LexEq(A, B)
       /\ compare.eq => compare.hash_a = compare.hash_b

\* C15: patch_is_valid returns True when readme, meta.ini and patched files
\* are all there, the sections are exactly info, version and files, info has
\* exactly name and bug, version exactly minimum and maximum, files has an
\* entry and no path in it starts with /; in every other case it returns False
PatchIsValidIffWellFormed ==
    valid.outcome \notin {"none", "given"}
    => LET contents == valid.contents
           config == contents.meta_ini
           well_formed ==
               /\ contents.readme # 0
               /\ config # NoMeta
               /\ DOMAIN contents.patched_files # {}
               /\ config.sections = {"info", "version", "files"}
               /\ config.scalars = {}
               /\ config.info = {"name", "bug"}
               /\ config.version = {"minimum", "maximum"}
               /\ DOMAIN config.files # {}
               /\ \A file_path \in DOMAIN config.files : file_path[1] # "/"
       IN  valid.outcome = (IF well_formed THEN "True" ELSE "False")

\* C19: when the install or uninstall ended with exit code 0 and the restart
\* of InsightIQ fails, main returns 0 all the same
RestartFailureNotFatal ==
    (/\ cli.outcome \notin {"none", "given"}
     /\ cli.command \in {"install", "uninstall"}
     /\ cli.exit_code = 0
     /\ cli.root
     /\ cli.restart # 0)
    => (cli.outcome = "returned" /\ cli.returned = 0)

\* C22: however extract_patch_contents ends, by returning or by an exception,
\* the tar file it opened is closed
ArchiveAlwaysClosed ==
    tar.outcome \in {"returned", "IOError"} => tar.closed

\* the entries of params.data that have the key
Occurrences(data, key) == {i \in DOMAIN data : data[i][1] = key}

\* C25: params[key] = value appends the entry [key, value] when the key is
\* absent; when it is present it sets the value of the first entry of the key
\* and changes nothing else, so that the length stays
SetitemCreatesOrUpdates ==
    params.step = "done"
    => LET data == params.data
           after == params.after
           found == Occurrences(data, params.key)
       IN  IF found = {}
           THEN after = Append(data, <<params.key, params.value>>)
           ELSE /\ Len(after) = Len(data)
                /\ \A i \in DOMAIN data :
                       after[i] = IF \A j \in found : i <= j
                                  THEN <<params.key, params.value>>
                                  ELSE data[i]

\* C27: with max_backups > 0 and n backups, _cleanup_backups deletes the
\* n - max_backups oldest backups, when there are that many, and returns;
\* with max_backups = 0 it deletes nothing
CleanupDeletesOldest ==
    cleanup.outcome \in {"returned", "IndexError"}
    => LET backups == Range(cleanup.found)
           extra == Cardinality(backups) - cleanup.max_backups
           oldest == {t \in backups : Cardinality({u \in backups : u < t}) < extra}
       IN  /\ cleanup.outcome = "returned"
           /\ Range(cleanup.to_delete) =
                  (IF cleanup.max_backups = 0 THEN {} ELSE oldest)

(***************************************************************************)
(* Parameters shared by threads: delete_parameter and modify_parameter     *)
(* hold self._lock, add, __setitem__ and __delitem__ do not.  A thread     *)
(* switch can fall between any two steps below.                            *)
(***************************************************************************)
\* the methods that take self._lock, and those that do not
Locked == {"delete_parameter", "modify_parameter"}
Unlocked == {"add", "__setitem__", "__delitem__"}

InitThreads ==
    /\ iiq_dir = TRUE
    /\ tree = [p \in TreePaths |-> IF p \in Shipped THEN Original(p) ELSE NoFile]
    /\ patches_dir = FALSE
    /\ pdirs = [n \in Names |-> NoDir]
    /\ pc = "idle"
    /\ cur = NoCall
    /\ start = [tree |-> tree, patches_dir |-> patches_dir, pdirs |-> pdirs,
                undisturbed |-> TRUE]
    /\ prev = NoPrev
    /\ events = 0
    /\ codec = NoCodec /\ listing = NoListing /\ compare = NoCompare
    /\ ranged = NoRanged /\ valid = NoValid /\ cli = NoCli /\ tar = NoTar
    /\ params = NoParams /\ cleanup = NoCleanup /\ race = NoRace
    /\ \E data \in SeqsUpTo(ParamNames \X {1}, MaxParams) :
           par = [NoPar EXCEPT !.data = data]

\* thread t calls a method of the Parameters object
Call(t, op, name, occurrence) ==
    /\ par.th[t].pc \in {"idle", "done"}
    /\ par.th[t].calls < MaxCalls
    /\ par' = [par EXCEPT !.th[t] =
                   [NoThread EXCEPT !.op = op, !.name = name, !.value = 2,
                                    !.occurrence = IF op \in Locked THEN occurrence ELSE 0,
                                    !.pc = IF op \in Locked THEN "acquire"
                                           ELSE IF op = "add" THEN "act" ELSE "find",
                                    !.calls = par.th[t].calls + 1]]
    /\ UNCHANGED <<handlers, codec, listing, compare, ranged, valid, cli, tar, params, cleanup, race>>

\* self._lock.acquire()
acquire(t) ==
    /\ par.th[t].pc = "acquire"
    /\ par.lock = 0
    /\ par' = [par EXCEPT !.lock = t, !.th[t].pc = "find"]
    /\ UNCHANGED <<handlers, codec, listing, compare, ranged, valid, cli, tar, params, cleanup, race>>

\* the thread's method ends; finally: self._lock.release() in the two
\* methods that hold the lock
Ends(t, outcome, hit, data) ==
    par' = [par EXCEPT !.data = data,
                       !.lock = IF par.th[t].op \in Locked THEN 0 ELSE par.lock,
                       !.th[t].pc = "done",
                       !.th[t].outcome = outcome,
                       !.th[t].hit = hit]

\* _find_occurrence_index(name, occurrence): one round of its loop, or the
\* KeyError after the loop
_find_occurrence_index(t) ==
    /\ par.th[t].pc = "find"
    /\ par.th[t].op \in Locked
    /\ LET me == par.th[t] IN
       IF me.i >= Len(par.data) THEN Ends(t, "KeyError", "", par.data)
       ELSE IF par.data[me.i + 1][1] # me.name
       THEN par' = [par EXCEPT !.th[t].i = me.i + 1]
       ELSE IF me.count = me.occurrence
       THEN par' = [par EXCEPT !.th[t].index = me.i, !.th[t].pc = "act"]
       ELSE par' = [par EXCEPT !.th[t].i = me.i + 1, !.th[t].count = me.count + 1]
    /\ UNCHANGED <<handlers, codec, listing, compare, ranged, valid, cli, tar, params, cleanup, race>>

\* delete_parameter: self._data.pop(index)
delete_parameter(t) ==
    /\ par.th[t].pc = "act"
    /\ par.th[t].op = "delete_parameter"
    /\ LET index == par.th[t].index IN
       IF index >= Len(par.data) THEN Ends(t, "IndexError", "", par.data)
       ELSE Ends(t, "returned", par.data[index + 1][1], Pop(par.data, index))
    /\ UNCHANGED <<handlers, codec, listing, compare, ranged, valid, cli, tar, params, cleanup, race>>

\* modify_parameter: self._data[index] = [name, new_value]
modify_parameter(t) ==
    /\ par.th[t].pc = "act"
    /\ par.th[t].op = "modify_parameter"
    /\ LET index == par.th[t].index
           me == par.th[t]
       IN  IF index >= Len(par.data) THEN Ends(t, "IndexError", "", par.data)
           ELSE Ends(t, "returned", par.data[index + 1][1],
                     [par.data EXCEPT ![index + 1] = <<me.name, me.value>>])
    /\ UNCHANGED <<handlers, codec, listing, compare, ranged, valid, cli, tar, params, cleanup, race>>

\* __delitem__(key): one round of its loop up to the test of the key, or
\* the KeyError of its else clause
Parameters_delitem_loop(t) ==
    /\ par.th[t].pc = "find"
    /\ par.th[t].op = "__delitem__"
    /\ LET me == par.th[t] IN
       IF me.i >= Len(par.data) THEN Ends(t, "KeyError", "", par.data)
       ELSE IF par.data[me.i + 1][1] # me.name
       THEN par' = [par EXCEPT !.th[t].i = me.i + 1]
       ELSE par' = [par EXCEPT !.th[t].index = me.i, !.th[t].pc = "act"]
    /\ UNCHANGED <<handlers, codec, listing, compare, ranged, valid, cli, tar, params, cleanup, race>>

\* __delitem__(key): value = self._data.pop(index)[self._VAL]
Parameters_delitem_pop(t) ==
    /\ par.th[t].pc = "act"
    /\ par.th[t].op = "__delitem__"
    /\ LET index == par.th[t].index IN
       IF index >= Len(par.data) THEN Ends(t, "IndexError", "", par.data)
       ELSE Ends(t, "returned", par.data[index + 1][1], Pop(par.data, index))
    /\ UNCHANGED <<handlers, codec, listing, compare, ranged, valid, cli, tar, params, cleanup, race>>

\* add(name, value): self._data.append([name, value])
Parameters_add(t) ==
    /\ par.th[t].pc = "act"
    /\ par.th[t].op = "add"
    /\ Ends(t, "returned", "", Append(par.data, <<par.th[t].name, par.th[t].value>>))
    /\ UNCHANGED <<handlers, codec, listing, compare, ranged, valid, cli, tar, params, cleanup, race>>

\* __setitem__(key, value) of a thread: one round of its loop, or the append
\* of the else clause that follows the loop
Parameters_setitem_loop(t) ==
    /\ par.th[t].pc = "find"
    /\ par.th[t].op = "__setitem__"
    /\ LET me == par.th[t] IN
       IF me.i >= Len(par.data)
       THEN Ends(t, "returned", "", Append(par.data, <<me.name, me.value>>))
       ELSE par' = [par EXCEPT !.th[t].i = me.i + 1,
                               !.data = IF par.data[me.i + 1][1] = me.name
                                        THEN [par.data EXCEPT ![me.i + 1][2] = me.value]
                                        ELSE par.data]
    /\ UNCHANGED <<handlers, codec, listing, compare, ranged, valid, cli, tar, params, cleanup, race>>

NextThreads ==
    \/ \E t \in Threads, op \in Locked \cup Unlocked, name \in ParamNames,
          occurrence \in {0, 1} : Call(t, op, name, occurrence)
    \/ \E t \in Threads : acquire(t)
    \/ \E t \in Threads : _find_occurrence_index(t)
    \/ \E t \in Threads : delete_parameter(t)
    \/ \E t \in Threads : modify_parameter(t)
    \/ \E t \in Threads : Parameters_delitem_loop(t)
    \/ \E t \in Threads : Parameters_delitem_pop(t)
    \/ \E t \in Threads : Parameters_add(t)
    \/ \E t \in Threads : Parameters_setitem_loop(t)

SpecThreads == InitThreads /\ [][NextThreads]_vars

\* C26: under any interleaving with the other methods, a delete_parameter or
\* modify_parameter that found its occurrence removes or rewrites an entry of
\* the requested name, never an entry of another name, and never fails with
\* an IndexError
LockedMethodsHitTheirName ==
    \A t \in Threads :
        (par.th[t].pc = "done" /\ par.th[t].op \in Locked)
        => /\ par.th[t].outcome # "IndexError"
           /\ par.th[t].outcome = "returned" => par.th[t].hit = par.th[t].name

(***************************************************************************)
(* Two processes run handle_install on the same patch file at the same     *)
(* time.  Nothing fails but what the other process causes.                 *)
(***************************************************************************)
\* the patch both processes install
RacedPatches ==
    {contents \in ConsistentPatches :
        /\ contents.meta_ini.name = "pA"
        /\ DOMAIN contents.patched_files \in {{FileC}, {FileC, FileA_B}}
        /\ source_is_patchable(contents.meta_ini.files,
                               [p \in TreePaths |-> IF p \in Shipped THEN Original(p) ELSE NoFile],
                               TRUE)}

InitRace ==
    /\ iiq_dir = TRUE
    /\ tree = [p \in TreePaths |-> IF p \in Shipped THEN Original(p) ELSE NoFile]
    /\ patches_dir = FALSE
    /\ pdirs = [n \in Names |-> NoDir]
    /\ pc = "idle"
    /\ cur = NoCall
    /\ start = [tree |-> tree, patches_dir |-> patches_dir, pdirs |-> pdirs,
                undisturbed |-> TRUE]
    /\ prev = NoPrev
    /\ events = 0
    /\ codec = NoCodec /\ listing = NoListing /\ compare = NoCompare
    /\ ranged = NoRanged /\ valid = NoValid /\ cli = NoCli /\ tar = NoTar
    /\ params = NoParams /\ cleanup = NoCleanup /\ par = NoPar
    /\ \E contents \in RacedPatches :
           race = [NoRace EXCEPT !.patch = contents, !.tree = tree]

\* the process goes on to the next statement
Goes(p, to) == [race EXCEPT !.proc[p].pc = to]
\* a call of install_patch raises IOError / OSError
Raises(p) == race' = Goes(p, "except")

\* handle_install: versions.get_patch_info and os.mkdir(patches_dir)
race_get_patch_info(p) ==
    /\ race.proc[p].pc = "start"
    /\ race' = [Goes(p, "validate") EXCEPT !.proc[p].is_listed = race.dir.exists]
    /\ UNCHANGED <<handlers, codec, listing, compare, ranged, valid, cli, tar, params, cleanup,
                   par>>

\* handle_install: the tests between extract_patch_contents and install_patch
race_validate(p) ==
    /\ race.proc[p].pc = "validate"
    /\ race' = IF race.proc[p].is_listed
               THEN [Goes(p, "done") EXCEPT !.proc[p].result = 0]
               ELSE IF ~source_is_patchable(race.patch.meta_ini.files, race.tree, TRUE)
               THEN [Goes(p, "done") EXCEPT !.proc[p].result = 103]
               ELSE Goes(p, "mkdir")
    /\ UNCHANGED <<handlers, codec, listing, compare, ranged, valid, cli, tar, params, cleanup,
                   par>>

\* install_patch: os.mkdir(patch_dir); errno 17 when the directory exists
race_mkdir(p) ==
    /\ race.proc[p].pc = "mkdir"
    /\ IF race.dir.exists THEN Raises(p)
       ELSE race' = [Goes(p, "mkdir_backups") EXCEPT !.dir = EmptyDir]
    /\ UNCHANGED <<handlers, codec, listing, compare, ranged, valid, cli, tar, params, cleanup,
                   par>>

\* install_patch: os.mkdir(patch_dir_backups); errno 2 when patch_dir is gone
race_mkdir_backups(p) ==
    /\ race.proc[p].pc = "mkdir_backups"
    /\ IF ~race.dir.exists \/ race.dir.originals THEN Raises(p)
       ELSE race' = [Goes(p, "backup") EXCEPT
                        !.dir.originals = TRUE,
                        !.proc[p].todo = DOMAIN race.patch.patched_files]
    /\ UNCHANGED <<handlers, codec, listing, compare, ranged, valid, cli, tar, params, cleanup,
                   par>>

\* the mutation: the source file is not copied to originals/
race_backup_skipped(p, file_location) ==
    /\ race.proc[p].pc = "backup"
    /\ file_location \in race.proc[p].todo
    /\ IF ~race.dir.originals THEN Raises(p)
       ELSE race' = [Goes(p, IF race.proc[p].todo = {file_location}
                             THEN "readme" ELSE "backup") EXCEPT
                        !.proc[p].todo = @ \ {file_location}]
    /\ UNCHANGED <<handlers, codec, listing, compare, ranged, valid, cli, tar, params, cleanup,
                   par>>

\* install_patch: shutil.copyfile(original_copy, backup_copy), one round
race_backup(p, file_location) ==
    /\ race.proc[p].pc = "backup"
    /\ file_location \in race.proc[p].todo
    /\ IF ~race.dir.originals THEN Raises(p)
       ELSE race' = [Goes(p, IF race.proc[p].todo = {file_location}
                             THEN "readme" ELSE "backup") EXCEPT
                        !.dir.backups[convert_patch_name(file_location, "backup")] =
                            race.tree[file_location],
                        !.proc[p].todo = @ \ {file_location}]
    /\ UNCHANGED <<handlers, codec, listing, compare, ranged, valid, cli, tar, params, cleanup,
                   par>>

\* install_patch: README.txt is written
race_readme(p) ==
    /\ race.proc[p].pc = "readme"
    /\ IF ~race.dir.exists THEN Raises(p)
       ELSE race' = [Goes(p, "meta") EXCEPT !.dir.readme = race.patch.readme]
    /\ UNCHANGED <<handlers, codec, listing, compare, ranged, valid, cli, tar, params, cleanup,
                   par>>

\* install_patch: meta.ini is written
race_meta(p) ==
    /\ race.proc[p].pc = "meta"
    /\ IF ~race.dir.exists THEN Raises(p)
       ELSE race' = [Goes(p, "overwrite") EXCEPT
                        !.dir.has_meta = TRUE,
                        !.dir.meta = race.patch.meta_ini,
                        !.proc[p].todo = DOMAIN race.patch.patched_files]
    /\ UNCHANGED <<handlers, codec, listing, compare, ranged, valid, cli, tar, params, cleanup,
                   par>>

\* install_patch: one round of the loop that overwrites the source files;
\* return 0 after the last
race_overwrite(p, patched_file) ==
    /\ race.proc[p].pc = "overwrite"
    /\ patched_file \in race.proc[p].todo
    /\ LET written == [race.tree EXCEPT ![patched_file] =
                                            race.patch.patched_files[patched_file]]
       IN  race' = [Goes(p, IF race.proc[p].todo = {patched_file}
                            THEN "done" ELSE "overwrite") EXCEPT
                       !.tree = IF EndsWithPy(patched_file)
                                THEN RemovePyc(written, patched_file) ELSE written,
                       !.proc[p].todo = @ \ {patched_file},
                       !.proc[p].result = 0]
    /\ UNCHANGED <<handlers, codec, listing, compare, ranged, valid, cli, tar, params, cleanup,
                   par>>

\* handle_install: except (IOError, OSError):
\* shutil.rmtree(specific_patch_dir, ignore_errors=True); return 104
race_except(p) ==
    /\ race.proc[p].pc = "except"
    /\ race' = [Goes(p, "done") EXCEPT !.dir = NoDir, !.proc[p].result = 104]
    /\ UNCHANGED <<handlers, codec, listing, compare, ranged, valid, cli, tar, params, cleanup,
                   par>>

NextRace ==
    \/ \E p \in Processes : race_get_patch_info(p)
    \/ \E p \in Processes : race_validate(p)
    \/ \E p \in Processes : race_mkdir(p)
    \/ \E p \in Processes : race_mkdir_backups(p)
    \/ \E p \in Processes, file_location \in Paths : race_backup(p, file_location)
    \/ \E p \in Processes : race_readme(p)
    \/ \E p \in Processes : race_meta(p)
    \/ \E p \in Processes, patched_file \in Paths : race_overwrite(p, patched_file)
    \/ \E p \in Processes : race_except(p)

SpecRace == InitRace /\ [][NextRace]_vars

\* the files of the raced patch that hold the patch's new content
Overwritten ==
    {f \in DOMAIN race.patch.patched_files : race.tree[f] = race.patch.patched_files[f]}
\* the failure cleanup of an invocation has run
CleanupRan == \E p \in Processes : race.proc[p].pc = "done" /\ race.proc[p].result = 104

====
